---- MODULE Spec2Model ----
(***************************************************************************)
(* Model of server.js: the Okta telephony inline hook that forwards OTP    *)
(* requests to Vonage Verify v2.  The shared state is the module-level map *)
(* activeVerifications; every POST /verify runs the async handler, which   *)
(* suspends at `await verifyClient.cancel` and at `await                   *)
(* verifyClient.newRequest`.  One action = the synchronous code between    *)
(* two suspension points (JavaScript runs it without preemption).          *)
(*                                                                         *)
(* JavaScript values:                                                      *)
(*   - an object is a record; an absent property is a field that is not in *)
(*     the record's DOMAIN;                                                *)
(*   - a request id is a positive integer, "" is EmptyId, undefined NoId;  *)
(*   - other strings are TLA+ strings, undefined is UndefinedText;         *)
(*   - a channel string is a sequence of one-character strings so that     *)
(*     toLowerCase is computed character by character;                     *)
(*   - a Map is a function whose DOMAIN is the set of keys present.        *)
(***************************************************************************)
EXTENDS Integers, Sequences, FiniteSets, TLC

\* ---------------------------------------------------------------- bounds
NumProcs == 2
MaxAttempts == 2

Procs == 1..NumProcs

\* ------------------------------------------------------------- JS values
NoId == -1
EmptyId == 0
UndefinedText == "<undefined>"

TruthyId(v) == v > 0
TruthyText(s) == s \notin {UndefinedText, ""}

\* a || b on strings
OrText(a, b) == IF TruthyText(a) THEN a ELSE b

\* ------------------------------------------------------------ Map (l.37)
EmptyMap == <<>>
MapGet(m, k) == IF k \in DOMAIN m THEN m[k] ELSE NoId
MapSet(m, k, v) == [x \in DOMAIN m \cup {k} |-> IF x = k THEN v ELSE m[x]]
MapDelete(m, k) == [x \in DOMAIN m \ {k} |-> m[x]]
MapHas(m, k) == k \in DOMAIN m

\* ------------------------------------------------- String.toLowerCase()
LowerChar(c) ==
  CASE c = "S" -> "s" [] c = "M" -> "m" [] c = "V" -> "v" [] c = "O" -> "o"
    [] c = "I" -> "i" [] c = "C" -> "c" [] c = "E" -> "e" [] OTHER -> c
toLowerCase_Identity(s) == s
toLowerCase(s) == [i \in DOMAIN s |-> LowerChar(s[i])]

\* --------------------------------------------- handler input (l.42-46)
\* req.body?.data?.messageProfile || {}
MessageProfile(body) ==
  IF "data" \in DOMAIN body /\ "messageProfile" \in DOMAIN body.data
  THEN body.data.messageProfile ELSE <<>>
\* String(mp.phoneNumber): String(undefined) is the text "undefined"
NumberOf(mp) == IF "phoneNumber" \in DOMAIN mp THEN mp.phoneNumber ELSE "undefined"
\* String(mp.deliveryChannel || 'SMS')
ChannelOf(mp) ==
  IF "deliveryChannel" \in DOMAIN mp /\ mp.deliveryChannel # <<>>
  THEN mp.deliveryChannel ELSE <<"S", "M", "S">>

\* ------------------------------------------------ auth middleware (l.21)
Rejected_Open(configured, incoming) ==
  TruthyText(configured) /\ incoming # configured
Rejected(configured, incoming) ==
  ~TruthyText(configured) \/ incoming # configured

\* ------------------------------------------- request body of create (l.78)
Params(b, c, n) == [brand |-> b, workflow |-> << [channel |-> c, to |-> n] >>]

\* --------------------------------------------------- request id (l.90)
\* resp?.requestId || resp?.request_id || resp?.data?.request_id
ExtractReqId(resp) ==
  LET a == IF "requestId" \in DOMAIN resp THEN resp.requestId ELSE NoId
      b == IF "request_id" \in DOMAIN resp THEN resp.request_id ELSE NoId
      c == IF "data" \in DOMAIN resp /\ "request_id" \in DOMAIN resp.data
           THEN resp.data.request_id ELSE NoId
  IN  IF TruthyId(a) THEN a ELSE IF TruthyId(b) THEN b ELSE c

\* ------------------------------------------ getSuccessResponse (l.101)
getSuccessResponse_Status(sid) ==
  [commands |-> <<
     [type |-> "com.okta.telephony.action",
      value |-> << [status |-> "SUCCESS",
                    provider |-> "VONAGE",
                    transactionId |-> sid] >>] >>]
getSuccessResponse(sid) ==
  [commands |-> <<
     [type |-> "com.okta.telephony.action",
      value |-> << [status |-> "SUCCESSFUL",
                    provider |-> "VONAGE",
                    transactionId |-> sid] >>] >>]

\* -------------------------------------------- getErrorResponse (l.123)
ErrMessage(e) == IF "message" \in DOMAIN e THEN e.message ELSE UndefinedText
ErrCode(e) == IF "code" \in DOMAIN e THEN e.code ELSE UndefinedText
ErrData(e) ==
  IF "response" \in DOMAIN e /\ "data" \in DOMAIN e.response
  THEN e.response.data ELSE <<>>
ErrTitle(e) == IF "title" \in DOMAIN ErrData(e) THEN ErrData(e).title ELSE UndefinedText
ErrDetail(e) == IF "detail" \in DOMAIN ErrData(e) THEN ErrData(e).detail ELSE UndefinedText

\* a ?? b in place of a || b
OrNullish(a, b) == IF a = UndefinedText THEN b ELSE a
getErrorResponse_Nullish(e) ==
  LET title == OrNullish(ErrTitle(e), "VerifyError")
      detail == OrNullish(ErrDetail(e), OrNullish(ErrMessage(e), "Unknown error"))
      code == OrNullish(ErrCode(e), "VERIFY_ERROR")
  IN  [error |-> [errorSummary |-> title,
                  errorCauses |-> << [errorSummary |-> code, reason |-> detail] >>]]
getErrorResponse(e) ==
  LET title == OrText(ErrTitle(e), "VerifyError")
      detail == OrText(ErrDetail(e), OrText(ErrMessage(e), "Unknown error"))
      code == OrText(ErrCode(e), "VERIFY_ERROR")
  IN  [error |-> [errorSummary |-> title,
                  errorCauses |-> << [errorSummary |-> code, reason |-> detail] >>]]

\* ------------------------------------------------- provider (Verify v2)
\* The provider names attempt n by an identifier of its own; a response may
\* carry it under several aliases, so an attempt owns two distinct spellings.
AttemptIds(n) == {2 * n - 1, 2 * n}

\* records over any subset of `fields` (absent properties) with values in V
OptRec(fields, V) == UNION {[S -> V] : S \in SUBSET fields}

\* every shape of a resolved newRequest for attempt n
AllResponses(n) ==
  LET V == {EmptyId} \cup AttemptIds(n)
      top == OptRec({"requestId", "request_id"}, V)
      data == OptRec({"request_id"}, V)
  IN  top \cup {t @@ [data |-> d] : t \in top, d \in data}

\* the shapes met in practice: the SDK's camelCase id, or no id at all
CommonResponses(n) ==
  {[requestId |-> 2 * n - 1], <<>>}

NullError == [type |-> "null"]
StringErrors == {[type |-> "string", str |-> s] : s \in {"", "boom"}}
AllErrors ==
  LET top == {m @@ c : m \in OptRec({"message"}, {"", "socket hang up"}),
                       c \in OptRec({"code"}, {"", "ECONNRESET"})}
      data == {t @@ d : t \in OptRec({"title"}, {"", "InvalidDestination"}),
                        d \in OptRec({"detail"}, {"", "Invalid number"})}
      resp == {<<>>, [response |-> <<>>]} \cup {[response |-> [data |-> d]] : d \in data}
  IN  {NullError} \cup StringErrors \cup {t @@ r : t \in top, r \in resp}

CommonErrors ==
  {[message |-> "socket hang up", code |-> "ECONNRESET"],
   [message |-> "Request failed with status code 409",
    response |-> [data |-> [title |-> "Conflict",
                            detail |-> "Concurrent verifications to the same number are not allowed"]]]}

\* ------------------------------------------------------ request inputs
Headers == {UndefinedText, "secret", "wrong"}
SMS == <<"S", "M", "S">>
Bodies(phones, channels) ==
  {<<>>} \cup
  {[data |-> [messageProfile |-> ph @@ ch]] :
      ph \in OptRec({"phoneNumber"}, phones),
      ch \in OptRec({"deliveryChannel"}, channels)}
CommonBodies ==
  {[data |-> [messageProfile |-> [phoneNumber |-> ph, deliveryChannel |-> SMS]]] :
      ph \in {"+15551234567", "+15557654321"}}
AllBodies ==
  Bodies({"+15551234567"}, {<<>>, SMS, <<"s", "m", "s">>, <<"V", "O", "I", "C", "E">>, <<"V", "o", "i", "c", "e">>})

\* ---------------------------------------------------------------- state
VARIABLES
  AUTH_HEADER_VALUE,    \* l.12, process.env.AUTH_HEADER_VALUE
  brand,                \* l.33
  activeVerifications,  \* l.37, Map<phone, request_id>
  pc,                   \* per request: where its handler is suspended
  req,                  \* l.42, req.body of the request being handled
  number,               \* l.44 / l.60
  chl,                  \* l.61
  priorId,              \* l.64
  ret,                  \* settled result of sendVerificationRequest (l.92 / l.96)
  res,                  \* the HTTP response sent for the request
  nextAttempt,          \* provider: number of the next attempt it accepts
  cancelLog,            \* provider: ids this request called cancel with
  createLog,            \* provider: bodies this request called newRequest with
  cancelOutcome,        \* provider: how the request's cancel call settled
  settled,              \* provider: how the request's newRequest call settled
  inFlight              \* provider, where it keeps the conflict rule (SpecProvider):
                        \* number -> the attempt in flight for it

locals == <<req, number, chl, priorId, ret, res>>
provider == <<nextAttempt, cancelLog, createLog, cancelOutcome, settled>>
config == <<AUTH_HEADER_VALUE, brand>>
vars == <<AUTH_HEADER_VALUE, brand, activeVerifications, pc, req, number, chl, priorId,
          ret, res, nextAttempt, cancelLog, createLog, cancelOutcome, settled,
          inFlight>>

NoRet == [threw |-> FALSE, pending |-> TRUE]
NoRes == [status |-> 0]
Pending == [state |-> "none"]

\* the state after the module has loaded, for a given environment
InitEnv(brands) ==
  /\ AUTH_HEADER_VALUE \in {UndefinedText, "secret"}
  /\ brand \in {OrText(env, "Paramount") : env \in brands}
  /\ activeVerifications = EmptyMap
  /\ pc = [p \in Procs |-> "idle"]
  /\ req = [p \in Procs |-> <<>>]
  /\ number = [p \in Procs |-> "undefined"]
  /\ chl = [p \in Procs |-> <<>>]
  /\ priorId = [p \in Procs |-> NoId]
  /\ ret = [p \in Procs |-> NoRet]
  /\ res = [p \in Procs |-> NoRes]
  /\ nextAttempt = 1
  /\ cancelLog = [p \in Procs |-> <<>>]
  /\ createLog = [p \in Procs |-> <<>>]
  /\ cancelOutcome = [p \in Procs |-> "none"]
  /\ settled = [p \in Procs |-> Pending]
  /\ inFlight = EmptyMap

Init == InitEnv({UndefinedText})
InitShapes == InitEnv({UndefinedText, "", "Acme"})

\* --------------------------------------------- sendVerificationRequest
\* l.65: if (priorId)
ShouldCancel_Always(prior) == TRUE
ShouldCancel_Never(prior) == FALSE
ShouldCancel(prior) == TruthyId(prior)

\* l.66-68: the entry is left in the map while cancel is awaited (it is
\* deleted only in the finally block)
BeforeCancel_Claim(m, k) == MapDelete(m, k)
BeforeCancel(m, k) == m

\* l.70: catch (cancelErr) { log } -- the failure of cancel is swallowed
Swallowed_Never(ok) == FALSE
Swallowed(ok) == TRUE

\* l.72-74: finally { activeVerifications.delete(number) }
AfterCancel_Clear(m, k) == EmptyMap
AfterCancel_Keep(m, k) == m
AfterCancel(m, k) == MapDelete(m, k)

\* l.91: if (reqId) activeVerifications.set(number, reqId)
RecordReqId_NoWrite(m, k, id) == m
RecordReqId_ClearOnMissing(m, k, id) == IF TruthyId(id) THEN MapSet(m, k, id) ELSE MapDelete(m, k)
RecordReqId(m, k, id) == IF TruthyId(id) THEN MapSet(m, k, id) ELSE m

\* l.48-52: the handler's continuation after `await sendVerificationRequest`
HandlerResponse_NoCatch(r) ==
  IF r.threw THEN [status |-> 0] ELSE [status |-> 200, body |-> r.val]
HandlerResponse(r) ==
  IF r.threw
  THEN [status |-> 500, body |-> getErrorResponse(r.val)]
  ELSE [status |-> 200, body |-> r.val]

Set(f, p, v) == [f EXCEPT ![p] = v]

\* sendVerificationRequest settles with r (l.92 return / l.96 throw) and the
\* handler's `await` (l.48) resumes with it.  The resumed handler touches
\* only the request's own `res`, so it is taken in the same step.
Returns(p, r) ==
  /\ ret' = Set(ret, p, r)
  /\ res' = Set(res, p, HandlerResponse(r))
  /\ pc' = Set(pc, p, "done")

\* POST /verify arrives: auth middleware (l.19-25), then the handler (l.40-48)
\* and sendVerificationRequest (l.60-68 / l.60-87) up to its first await.
PostVerify(p, incoming, body) ==
  /\ pc[p] = "idle"
  /\ IF Rejected(AUTH_HEADER_VALUE, incoming)
     THEN /\ res' = Set(res, p, [status |-> 401, body |-> [text |-> "Unauthorized"]])
          /\ pc' = Set(pc, p, "done")
          /\ UNCHANGED <<activeVerifications, req, number, chl, priorId, cancelLog, createLog>>
     ELSE LET mp == MessageProfile(body)
              num == NumberOf(mp)
              c == toLowerCase(ChannelOf(mp))
              prior == MapGet(activeVerifications, num)
          IN  /\ req' = Set(req, p, body)
              /\ number' = Set(number, p, num)
              /\ chl' = Set(chl, p, c)
              /\ priorId' = Set(priorId, p, prior)
              /\ IF ShouldCancel(prior)
                 THEN /\ cancelLog' = Set(cancelLog, p, Append(cancelLog[p], prior))
                      /\ activeVerifications' = BeforeCancel(activeVerifications, num)
                      /\ pc' = Set(pc, p, "cancel")
                      /\ UNCHANGED createLog
                 ELSE /\ createLog' = Set(createLog, p, Append(createLog[p], Params(brand, c, num)))
                      /\ pc' = Set(pc, p, "create")
                      /\ UNCHANGED <<cancelLog, activeVerifications>>
              /\ UNCHANGED res
  /\ UNCHANGED <<config, ret, nextAttempt, cancelOutcome, settled, inFlight>>

\* GET /health (l.14-17), registered before the auth middleware
Health(p) ==
  /\ pc[p] = "idle"
  /\ res' = Set(res, p, [status |-> 200, body |-> [text |-> "ok"]])
  /\ pc' = Set(pc, p, "done")
  /\ UNCHANGED <<config, activeVerifications, req, number, chl, priorId, ret, provider,
                 inFlight>>

\* `await verifyClient.cancel(priorId)` settles (l.68): catch / finally
\* (l.70-74), then the code up to `await verifyClient.newRequest` (l.78-87)
CancelSettles(p, ok) ==
  /\ pc[p] = "cancel"
  /\ cancelOutcome' = Set(cancelOutcome, p, IF ok THEN "ok" ELSE "failed")
  /\ activeVerifications' = AfterCancel(activeVerifications, number[p])
  /\ IF ok \/ Swallowed(ok)
     THEN /\ createLog' = Set(createLog, p, Append(createLog[p], Params(brand, chl[p], number[p])))
          /\ pc' = Set(pc, p, "create")
          /\ UNCHANGED <<ret, res>>
     ELSE /\ Returns(p, [threw |-> TRUE, val |-> NullError])
          /\ UNCHANGED createLog
  /\ UNCHANGED <<config, req, number, chl, priorId, nextAttempt, cancelLog, settled>>

\* `await verifyClient.newRequest(params)` resolves with resp (l.87-92)
CreateResolves(p, resp) ==
  /\ pc[p] = "create"
  /\ nextAttempt <= MaxAttempts
  /\ LET reqId == ExtractReqId(resp)
     IN  /\ activeVerifications' = RecordReqId(activeVerifications, number[p], reqId)
         /\ Returns(p, [threw |-> FALSE, val |-> getSuccessResponse(reqId)])
  /\ nextAttempt' = nextAttempt + 1
  /\ settled' = Set(settled, p, [state |-> "resolved", resp |-> resp])
  /\ UNCHANGED <<config, req, number, chl, priorId, cancelLog, createLog, cancelOutcome>>

\* `await verifyClient.newRequest(params)` rejects with error (l.93-97)
CreateRejects_Retry(p, error) ==
  /\ pc[p] = "create"
  /\ settled' = Set(settled, p, [state |-> "rejected", error |-> error])
  /\ UNCHANGED <<config, activeVerifications, pc, locals,
                 nextAttempt, cancelLog, createLog, cancelOutcome>>
CreateRejects(p, error) ==
  /\ pc[p] = "create"
  /\ Returns(p, [threw |-> TRUE, val |-> error])
  /\ settled' = Set(settled, p, [state |-> "rejected", error |-> error])
  /\ UNCHANGED <<config, activeVerifications, req, number, chl, priorId,
                 nextAttempt, cancelLog, createLog, cancelOutcome>>

\* the response has been delivered; the request and its locals are gone
Close(p) ==
  /\ pc[p] = "done"
  /\ pc' = Set(pc, p, "idle")
  /\ req' = Set(req, p, <<>>)
  /\ number' = Set(number, p, "undefined")
  /\ chl' = Set(chl, p, <<>>)
  /\ priorId' = Set(priorId, p, NoId)
  /\ ret' = Set(ret, p, NoRet)
  /\ res' = Set(res, p, NoRes)
  /\ cancelLog' = Set(cancelLog, p, <<>>)
  /\ createLog' = Set(createLog, p, <<>>)
  /\ cancelOutcome' = Set(cancelOutcome, p, "none")
  /\ settled' = Set(settled, p, Pending)
  /\ UNCHANGED <<config, activeVerifications, nextAttempt, inFlight>>

\* The provider calls settle against a provider that may accept or refuse
\* any call; its book of attempts in flight is not kept for it.
\* cancel settles either way
CancelSettlesEither(p) ==
  /\ \E ok \in BOOLEAN : CancelSettles(p, ok)
  /\ UNCHANGED inFlight
\* newRequest settles with one of the results met in practice
CreateResolvesCommon(p) ==
  /\ \E r \in CommonResponses(nextAttempt) : CreateResolves(p, r)
  /\ UNCHANGED inFlight
CreateRejectsCommon(p) ==
  /\ \E e \in CommonErrors : CreateRejects(p, e)
  /\ UNCHANGED inFlight
\* newRequest settles with a result of any shape
CreateResolvesAny(p) ==
  /\ \E r \in AllResponses(nextAttempt) : CreateResolves(p, r)
  /\ UNCHANGED inFlight
CreateRejectsAny(p) ==
  /\ \E e \in AllErrors : CreateRejects(p, e)
  /\ UNCHANGED inFlight

\* ------------------------------------------------------- specifications
\* Spec: concurrent requests, the provider results met in practice.
Next ==
  \E p \in Procs :
    \/ \E h \in Headers, b \in CommonBodies : PostVerify(p, h, b)
    \/ Health(p)
    \/ CancelSettlesEither(p)
    \/ CreateResolvesCommon(p)
    \/ CreateRejectsCommon(p)
    \/ Close(p)

Spec == Init /\ [][Next]_vars

\* SpecShapes: one request at a time, every shape of request body, provider
\* response and provider error.
NextShapes ==
  \/ \E h \in Headers, b \in AllBodies : PostVerify(1, h, b)
  \/ Health(1)
  \/ CancelSettlesEither(1)
  \/ CreateResolvesAny(1)
  \/ CreateRejectsAny(1)
  \/ Close(1)

SpecShapes == InitShapes /\ [][NextShapes]_vars

\* SpecFair: concurrent requests for one phone number, where every provider
\* call eventually settles and the continuation of a settled call is
\* eventually run.
OneNumberBodies ==
  {b \in CommonBodies : NumberOf(MessageProfile(b)) = "+15551234567"}
CreateSettlesCommon(p) == CreateResolvesCommon(p) \/ CreateRejectsCommon(p)
NextFair ==
  \E p \in Procs :
    \/ \E h \in Headers, b \in OneNumberBodies : PostVerify(p, h, b)
    \/ Health(p)
    \/ CancelSettlesEither(p)
    \/ CreateSettlesCommon(p)
    \/ Close(p)
SpecFair ==
  /\ Init /\ [][NextFair]_vars
  /\ \A p \in Procs : WF_vars(CancelSettlesEither(p)) /\ WF_vars(CreateSettlesCommon(p))

\* SpecProvider: concurrent requests against a provider that keeps the
\* conflict rule the code works around (l.63): one attempt in flight per
\* number; newRequest for a number with an attempt in flight is refused with
\* 409 Conflict, and cancel of the attempt in flight succeeds and ends it.
ConflictError == CHOOSE e \in CommonErrors : "response" \in DOMAIN e
TransportError == CHOOSE e \in CommonErrors : "response" \notin DOMAIN e

\* cancel settles: the attempt in flight is ended; an attempt that is no
\* longer in flight may be refused or accepted as already ended
ProviderCancel(p) ==
  /\ pc[p] = "cancel"
  /\ IF MapGet(inFlight, number[p]) = priorId[p]
     THEN /\ CancelSettles(p, TRUE)
          /\ inFlight' = MapDelete(inFlight, number[p])
     ELSE CancelSettlesEither(p)

\* newRequest settles: refused while an attempt is in flight for the number,
\* otherwise accepted (the response names the new attempt) or failed in transit
ProviderCreate(p) ==
  /\ pc[p] = "create"
  /\ IF MapHas(inFlight, number[p])
     THEN /\ CreateRejects(p, ConflictError)
          /\ UNCHANGED inFlight
     ELSE \/ /\ CreateResolves(p, [requestId |-> 2 * nextAttempt - 1])
             /\ inFlight' = MapSet(inFlight, number[p], 2 * nextAttempt - 1)
          \/ /\ CreateRejects(p, TransportError)
             /\ UNCHANGED inFlight

\* the attempt in flight for number d ends at the provider: the code was
\* entered, or the attempt expired
AttemptEnds(d) ==
  /\ MapHas(inFlight, d)
  /\ inFlight' = MapDelete(inFlight, d)
  /\ UNCHANGED <<config, activeVerifications, pc, locals, provider>>

SomeAttemptEnds == \E d \in DOMAIN inFlight : AttemptEnds(d)

NextProvider ==
  \/ \E p \in Procs :
       \/ \E h \in Headers, b \in CommonBodies : PostVerify(p, h, b)
       \/ ProviderCancel(p)
       \/ ProviderCreate(p)
       \/ Close(p)
  \/ SomeAttemptEnds

SpecProvider == Init /\ [][NextProvider]_vars

TypeOK ==
  /\ pc \in [Procs -> {"idle", "cancel", "create", "done"}]
  /\ \A k \in DOMAIN activeVerifications : TruthyId(activeVerifications[k])
  /\ nextAttempt \in 1..(MaxAttempts + 1)

\* ================================================================ claims
\* the non-empty identifiers a resolved newRequest carries, under any alias
ResponseIds(resp) ==
  {v \in (IF "requestId" \in DOMAIN resp THEN {resp.requestId} ELSE {})
         \cup (IF "request_id" \in DOMAIN resp THEN {resp.request_id} ELSE {})
         \cup (IF "data" \in DOMAIN resp /\ "request_id" \in DOMAIN resp.data
               THEN {resp.data.request_id} ELSE {}) : v # EmptyId}
Identified(resp) == ResponseIds(resp) # {}

\* request p got past the auth middleware: start(number[p], chl[p]) was invoked
Started(p) == pc[p] \in {"cancel", "create"} \/ createLog[p] # <<>>
Resolved(p) == pc[p] = "done" /\ settled[p].state = "resolved"
RejectedCreate(p) == pc[p] = "done" /\ settled[p].state = "rejected"
TransactionId(body) == body.commands[1].value[1].transactionId

\* the step in which p's newRequest call settles
CreateSettlesStep(p) == pc[p] = "create" /\ pc'[p] = "done"
\* the step in which p's cancel call settles
CancelSettlesStep(p) == pc[p] = "cancel" /\ pc'[p] # "cancel"
\* the step in which start is invoked for p
StartStep(p) == pc[p] = "idle" /\ pc'[p] \in {"cancel", "create"}

\* C1: in the step where an invocation's create call resolves with a
\* non-empty identifier J and the invocation returns Success, the registry
\* maps the invocation's destination to J, whatever other invocations did.
C1_SuccessRecorded ==
  [][\A p \in Procs :
       (CreateSettlesStep(p) /\ settled'[p].state = "resolved"
          /\ Identified(settled'[p].resp))
       => /\ ~ret'[p].threw
          /\ TransactionId(ret'[p].val) \in ResponseIds(settled'[p].resp)
          /\ MapGet(activeVerifications', number[p]) = TransactionId(ret'[p].val)]_vars

C1_Witness ==
  \E p, q \in Procs :
    /\ p # q /\ number[p] = number[q] /\ pc[q] = "create"
    /\ Resolved(p) /\ Identified(settled[p].resp)
    /\ MapGet(activeVerifications, number[p]) = TransactionId(res[p].body)

\* C2 as claimed: in the step where an invocation's create call fails, the
\* registry has no entry for its destination, overlapping invocations or not.
C2_AbsentAfterFailure ==
  [][\A p \in Procs :
       (CreateSettlesStep(p) /\ settled'[p].state = "rejected")
       => ~MapHas(activeVerifications', number[p])]_vars

\* C2 amended: the registry has no entry for D when the invocation issues
\* create; while it awaits create the entry for D changes only in steps of
\* other start invocations for D; and the step in which its create fails
\* leaves the registry as it was.
C2_FailureWritesNothing ==
  [][\A p \in Procs :
       /\ (pc[p] # "create" /\ pc'[p] = "create")
            => ~MapHas(activeVerifications', number'[p])
       /\ (pc[p] = "create" /\ pc'[p] = "create"
             /\ MapGet(activeVerifications', number[p]) # MapGet(activeVerifications, number[p]))
            => \E q \in Procs \ {p} :
                 number[q] = number[p] /\ pc[q] \in {"cancel", "create"} /\ pc'[q] # pc[q]
       /\ (CreateSettlesStep(p) /\ settled'[p].state = "rejected")
            => /\ activeVerifications' = activeVerifications
               /\ ret'[p].threw
               /\ res'[p].status = 500]_vars

C2_Witness ==
  \E p \in Procs :
    /\ RejectedCreate(p) /\ TruthyId(priorId[p])
    /\ ~MapHas(activeVerifications, number[p])

\* C3: an invocation that read a prior entry I calls cancel(I) and nothing
\* else when it starts; it calls create only in the step where that cancel
\* call settles; and right after that step the registry does not map its
\* destination to I, whether cancel succeeded or failed.
C3_CancelBeforeCreate ==
  [][\A p \in Procs :
       /\ (StartStep(p) /\ TruthyId(priorId'[p]))
            => /\ priorId'[p] = MapGet(activeVerifications, number'[p])
               /\ pc'[p] = "cancel"
               /\ cancelLog'[p] = <<priorId'[p]>>
               /\ createLog'[p] = <<>>
       /\ (pc'[p] = "cancel") => (cancelOutcome'[p] = "none" /\ createLog'[p] = <<>>)
       /\ CancelSettlesStep(p)
            => /\ cancelOutcome'[p] \in {"ok", "failed"}
               /\ MapGet(activeVerifications', number[p]) # priorId[p]
       /\ (TruthyId(priorId'[p]) /\ createLog'[p] # <<>>)
            => /\ cancelOutcome'[p] \in {"ok", "failed"}
               /\ cancelLog'[p] = <<priorId'[p]>>]_vars

C3_Witness ==
  \E p, q \in Procs :
    /\ pc[p] = "create" /\ TruthyId(priorId[p]) /\ cancelOutcome[p] = "failed"
    /\ pc[q] = "create" /\ TruthyId(priorId[q]) /\ cancelOutcome[q] = "ok"
    /\ cancelLog[p] = <<priorId[p]>> /\ Len(createLog[p]) = 1
    /\ ~MapHas(activeVerifications, number[p])

\* C4: an invocation that found no registry entry for its destination when
\* it began never calls cancel, whatever happens while it is suspended.
C4_NoPriorNoCancel ==
  \A p \in Procs :
    (Started(p) /\ ~TruthyId(priorId[p]))
    => (cancelLog[p] = <<>> /\ cancelOutcome[p] = "none" /\ pc[p] # "cancel")

C4_Witness ==
  \E p \in Procs :
    /\ pc[p] = "create" /\ priorId[p] = NoId /\ cancelLog[p] = <<>>
    /\ MapHas(activeVerifications, number[p])

\* C5: the registry de-duplicates only best-effort.  Starting an invocation
\* leaves the entry it read in place; a second start for D that arrives
\* while the first is suspended in cancel(I) and the registry still maps D
\* to I reads the same I and calls cancel(I) too; and an invocation resuming
\* from cancel(I) goes on to call create although another invocation for D
\* that read the same I is still under way, which is left as it is.
C5_BestEffortDedup ==
  [][\A p, q \in Procs :
       /\ StartStep(p) => activeVerifications' = activeVerifications
       /\ (p # q /\ StartStep(q) /\ pc[p] = "cancel" /\ number[p] = number'[q]
             /\ MapGet(activeVerifications, number[p]) = priorId[p])
            => /\ priorId'[q] = priorId[p]
               /\ pc'[q] = "cancel"
               /\ cancelLog'[q] = <<priorId[p]>>
       /\ (p # q /\ CancelSettlesStep(p) /\ pc[q] \in {"cancel", "create"}
             /\ number[q] = number[p] /\ priorId[q] = priorId[p])
            => /\ pc'[p] = "create"
               /\ Len(createLog'[p]) = 1
               /\ pc'[q] = pc[q]]_vars

C5_Witness ==
  \E p, q \in Procs :
    /\ p # q /\ number[p] = number[q]
    /\ TruthyId(priorId[p]) /\ priorId[q] = priorId[p]
    /\ pc[p] = "create" /\ pc[q] = "create"
    /\ cancelLog[p] = <<priorId[p]>> /\ cancelLog[q] = <<priorId[p]>>
    /\ Len(createLog[p]) = 1 /\ Len(createLog[q]) = 1

\* the response the create call's result alone determines
OutcomeOfCreate(st) ==
  IF st.state = "resolved"
  THEN [status |-> 200, body |-> getSuccessResponse(ExtractReqId(st.resp))]
  ELSE [status |-> 500, body |-> getErrorResponse(st.error)]

\* C6: when an invocation's cancel call settles, with failure as with
\* success, the same step removes D's entry and calls create; and the
\* response of every finished invocation is the one its create call's
\* result determines, whatever its cancel call did.
C6_CancelFailureIgnored ==
  [][\A p \in Procs :
       /\ CancelSettlesStep(p)
            => /\ ~MapHas(activeVerifications', number[p])
               /\ pc'[p] = "create"
               /\ Len(createLog'[p]) = 1
               /\ settled'[p].state = "none"
       /\ (pc'[p] = "done" /\ createLog'[p] # <<>>)
            => /\ settled'[p].state \in {"resolved", "rejected"}
               /\ res'[p] = OutcomeOfCreate(settled'[p])]_vars

C6_Witness ==
  \E p, q \in Procs :
    /\ pc[p] = "done" /\ cancelOutcome[p] = "failed"
    /\ pc[q] = "done" /\ cancelOutcome[q] = "ok"
    /\ settled[p] = settled[q] /\ settled[p].state = "rejected"
    /\ res[p] = res[q] /\ res[p].status = 500

SuccessEnvelope(b) ==
  /\ DOMAIN b = {"commands"}
  /\ Len(b.commands) = 1
  /\ DOMAIN b.commands[1] = {"type", "value"}
  /\ b.commands[1].type = "com.okta.telephony.action"
  /\ Len(b.commands[1].value) = 1
  /\ DOMAIN b.commands[1].value[1] = {"status", "provider", "transactionId"}
  /\ b.commands[1].value[1].status = "SUCCESSFUL"
  /\ b.commands[1].value[1].provider = "VONAGE"

FailureEnvelope(b) ==
  /\ DOMAIN b = {"error"}
  /\ DOMAIN b.error = {"errorSummary", "errorCauses"}
  /\ Len(b.error.errorCauses) = 1
  /\ DOMAIN b.error.errorCauses[1] = {"errorSummary", "reason"}

\* C7: every request that got past the auth middleware and whose create
\* call has settled has been answered: with status 200 and the success
\* envelope when create resolved, with status 500 and the failure envelope
\* when create rejected, for a provider error of any shape.
C7_AlwaysAnEnvelope ==
  \A p \in Procs :
    /\ (Started(p) /\ pc[p] = "done")
         => \/ /\ settled[p].state = "resolved"
               /\ res[p].status = 200
               /\ SuccessEnvelope(res[p].body)
            \/ /\ settled[p].state = "rejected"
               /\ res[p].status = 500
               /\ FailureEnvelope(res[p].body)
    /\ (Started(p) /\ pc[p] # "done") => settled[p].state = "none"

C7_Witness ==
  \E p \in Procs :
    /\ RejectedCreate(p)
    /\ settled[p].error \in {NullError} \cup StringErrors \cup {[message |-> ""]}
    /\ res[p].status = 500 /\ FailureEnvelope(res[p].body)

\* every registry key a request can produce
Destinations == {NumberOf(MessageProfile(b)) : b \in CommonBodies \cup AllBodies}
InProgress(p, d) == pc[p] \in {"cancel", "create"} /\ number[p] = d
Quiescent(d) == \A p \in Procs : ~InProgress(p, d)

\* C8 as claimed: a finished invocation that read an entry for D (so the
\* registry held one) sees the registry still hold an entry for D whenever
\* no start invocation for D is in progress.
C8_NeverCleared ==
  \A p \in Procs :
    (pc[p] = "done" /\ TruthyId(priorId[p]) /\ Quiescent(number[p]))
    => MapHas(activeVerifications, number[p])

\* C8 amended: the entry for D changes only in a step of a start invocation
\* for D that is in progress, and it is removed only in the step where such
\* an invocation resumes from its cancel call and goes on to await create;
\* it is not removed when an invocation finishes, nor while none is in
\* progress.
C8_ClearedOnlyByRestart ==
  [][\A d \in Destinations :
       /\ (MapGet(activeVerifications', d) # MapGet(activeVerifications, d))
            => \E p \in Procs : InProgress(p, d) /\ pc'[p] # pc[p]
       /\ (MapHas(activeVerifications, d) /\ ~MapHas(activeVerifications', d))
            => \E p \in Procs :
                 /\ InProgress(p, d) /\ pc[p] = "cancel"
                 /\ pc'[p] = "create" /\ number'[p] = d]_vars

C8_Witness ==
  \E p \in Procs :
    /\ Resolved(p) /\ ~Identified(settled[p].resp)
    /\ TruthyId(priorId[p])
    /\ Quiescent(number[p])
    /\ ~MapHas(activeVerifications, number[p])

\* C9: the failure envelope is fully populated: errorSummary is the
\* provider's title when present and non-empty, else "VerifyError"; the
\* cause's errorSummary is the error's code when present and non-empty, else
\* "VERIFY_ERROR"; the reason is the provider's detail, else the error's
\* message, else "Unknown error"; none of the three is empty or missing.
C9_FailureEnvelopePopulated ==
  \A p \in Procs :
    RejectedCreate(p) =>
      LET e == settled[p].error
          env == res[p].body.error
          cause == env.errorCauses[1]
          Given(x) == x # UndefinedText /\ x # ""
      IN  /\ env.errorSummary = (IF Given(ErrTitle(e)) THEN ErrTitle(e) ELSE "VerifyError")
          /\ cause.errorSummary = (IF Given(ErrCode(e)) THEN ErrCode(e) ELSE "VERIFY_ERROR")
          /\ cause.reason = (IF Given(ErrDetail(e)) THEN ErrDetail(e)
                             ELSE IF Given(ErrMessage(e)) THEN ErrMessage(e)
                             ELSE "Unknown error")
          /\ \A x \in {env.errorSummary, cause.errorSummary, cause.reason} : Given(x)

C9_Witness ==
  \E p \in Procs :
    /\ RejectedCreate(p)
    /\ ErrTitle(settled[p].error) = "" /\ ErrCode(settled[p].error) = ""
    /\ ErrDetail(settled[p].error) = "" /\ ErrMessage(settled[p].error) = "socket hang up"
    /\ res[p].body.error.errorSummary = "VerifyError"
    /\ res[p].body.error.errorCauses[1].reason = "socket hang up"

\* C10: every success envelope is one command of type
\* "com.okta.telephony.action" with one value, status "SUCCESSFUL",
\* provider "VONAGE"; when the invocation's own create call returned an
\* identifier the transactionId is that identifier, and it is neither the
\* prior id the invocation cancelled nor an identifier returned to another
\* invocation.
C10_SuccessEnvelope ==
  \A p \in Procs :
    (pc[p] = "done" /\ res[p].status = 200 /\ Started(p)) =>
      /\ settled[p].state = "resolved"
      /\ SuccessEnvelope(res[p].body)
      /\ Identified(settled[p].resp) =>
           /\ TransactionId(res[p].body) \in ResponseIds(settled[p].resp)
           /\ TransactionId(res[p].body) # priorId[p]
           /\ \A q \in Procs \ {p} :
                settled[q].state = "resolved"
                  => TransactionId(res[p].body) \notin ResponseIds(settled[q].resp)
      /\ ~Identified(settled[p].resp) =>
           TransactionId(res[p].body) \in {NoId, EmptyId}

C10_Witness ==
  \E p, q \in Procs :
    /\ p # q /\ Resolved(p) /\ Resolved(q) /\ number[p] = number[q]
    /\ Identified(settled[p].resp) /\ Identified(settled[q].resp)
    /\ priorId[q] = TransactionId(res[p].body)
    /\ TransactionId(res[q].body) \in ResponseIds(settled[q].resp)
    /\ TransactionId(res[q].body) # TransactionId(res[p].body)

\* upper-case letters and their lower-case forms
CasePairs ==
  {<<"S", "s">>, <<"M", "m">>, <<"V", "v">>, <<"O", "o">>, <<"I", "i">>,
   <<"C", "c">>, <<"E", "e">>}
LowerOf(c, s) ==
  /\ Len(c) = Len(s)
  /\ \A i \in 1..Len(s) :
       /\ c[i] \notin {pr[1] : pr \in CasePairs}
       /\ c[i] = s[i] \/ <<s[i], c[i]>> \in CasePairs

\* C11: every body passed to newRequest is {brand, workflow: [{channel, to}]}
\* and nothing else (no code field); brand is the configured brand, which
\* never changes; `to` is the received phone number unchanged; channel is
\* the received channel in lower case, or "sms" when none or an empty one
\* was received.
C11_CreateRequestShape ==
  [][/\ brand' = brand
     /\ \A p \in Procs : \A i \in DOMAIN createLog'[p] :
          LET r == createLog'[p][i]
              mp == MessageProfile(req'[p])
          IN  /\ DOMAIN r = {"brand", "workflow"}
              /\ r.brand = brand
              /\ Len(r.workflow) = 1
              /\ DOMAIN r.workflow[1] = {"channel", "to"}
              /\ "phoneNumber" \in DOMAIN mp => r.workflow[1].to = mp.phoneNumber
              /\ IF "deliveryChannel" \in DOMAIN mp /\ Len(mp.deliveryChannel) > 0
                 THEN LowerOf(r.workflow[1].channel, mp.deliveryChannel)
                 ELSE r.workflow[1].channel = <<"s", "m", "s">>]_vars

C11_Witness ==
  \E p \in Procs :
    /\ pc[p] = "create" /\ TruthyId(priorId[p])
    /\ MessageProfile(req[p]) = [phoneNumber |-> "+15551234567",
                                 deliveryChannel |-> <<"V", "o", "i", "c", "e">>]
    /\ createLog[p] = << [brand |-> "Acme",
                          workflow |-> << [channel |-> <<"v", "o", "i", "c", "e">>,
                                           to |-> "+15551234567"] >>] >>

\* request p was answered by the POST /verify handler
VerifyDone(p) ==
  pc[p] = "done" /\ res[p].status # 401 /\ res[p].body # [text |-> "ok"]

\* C12: an invocation calls cancel at most once and create at most once;
\* once it is past cancel it has called create exactly once, absent phone
\* number or not; the step in which its create call settles makes no
\* provider call, and a rejected create ends the invocation with status 500.
C12_OneCreateNoRetry ==
  [][\A p \in Procs :
       /\ (Len(cancelLog[p]) <= 1 /\ Len(createLog[p]) <= 1)'
       /\ (pc[p] = "cancel" => createLog[p] = <<>>)'
       /\ (pc[p] = "create" \/ VerifyDone(p) => Len(createLog[p]) = 1)'
       /\ StartStep(p) => Len(cancelLog'[p]) + Len(createLog'[p]) = 1
       /\ CreateSettlesStep(p)
            => /\ createLog'[p] = createLog[p]
               /\ cancelLog'[p] = cancelLog[p]
               /\ settled'[p].state = "rejected" => res'[p].status = 500]_vars

C12_Witness ==
  \E p \in Procs :
    /\ RejectedCreate(p) /\ cancelOutcome[p] = "failed"
    /\ "phoneNumber" \notin DOMAIN MessageProfile(req[p])
    /\ Len(cancelLog[p]) = 1
    /\ Len(createLog[p]) = 1 /\ createLog[p][1].workflow[1].to = "undefined"
    /\ res[p].status = 500

\* C13: with provider calls that settle and fair scheduling, every
\* invocation that has started finishes with a response, whatever the other
\* invocations do.
C13_RunsToCompletion ==
  \A p \in Procs :
    (pc[p] \in {"cancel", "create"})
      ~> (pc[p] = "done" /\ res[p].status \in {200, 500} /\ settled[p].state # "none")

C13_Witness ==
  \E p, q \in Procs :
    /\ p # q /\ number[p] = number[q]
    /\ pc[p] = "done" /\ res[p].status = 500 /\ cancelOutcome[p] = "failed"
    /\ pc[q] = "done" /\ res[q].status = 200 /\ TruthyId(priorId[q])

\* the aliases of the identifier that a resolved newRequest holds at all
Aliases(resp) ==
  (IF "requestId" \in DOMAIN resp THEN {"requestId"} ELSE {})
    \cup (IF "request_id" \in DOMAIN resp THEN {"request_id"} ELSE {})
    \cup (IF "data" \in DOMAIN resp /\ "request_id" \in DOMAIN resp.data
          THEN {"data.request_id"} ELSE {})

FirstPopulated(resp) ==
  LET a == IF "requestId" \in DOMAIN resp THEN resp.requestId ELSE NoId
      b == IF "request_id" \in DOMAIN resp THEN resp.request_id ELSE NoId
      c == IF "data" \in DOMAIN resp /\ "request_id" \in DOMAIN resp.data
           THEN resp.data.request_id ELSE NoId
  IN  IF a \notin {NoId, EmptyId} THEN a
      ELSE IF b \notin {NoId, EmptyId} THEN b
      ELSE IF c \notin {NoId, EmptyId} THEN c
      ELSE NoId

\* C15: in the step where an invocation's create call resolves, the
\* transactionId it returns is the first populated alias of the response in
\* the order requestId, request_id, data.request_id, and is absent when no
\* alias is populated; the registry maps the destination to that identifier
\* when there is one and is left unchanged when there is none.
C15_FirstPopulatedAlias ==
  [][\A p \in Procs :
       (CreateSettlesStep(p) /\ settled'[p].state = "resolved")
         => LET id == FirstPopulated(settled'[p].resp)
            IN  /\ TransactionId(res'[p].body) = id
                /\ IF id = NoId
                   THEN activeVerifications' = activeVerifications
                   ELSE /\ MapHas(activeVerifications', number[p])
                        /\ activeVerifications'[number[p]] = id]_vars

\* every request body of the specifications
RequestBodies == CommonBodies \cup AllBodies

\* C16: a POST /verify step whose auth header differs from the configured
\* value, or that arrives when no value is configured, answers 401
\* "Unauthorized" and ends the request there: it adds no cancel call and no
\* create call, starts no provider attempt and leaves the registry as it
\* was; and a request answered 401 has made no provider call at all.
C16_UnauthorizedStopsAtMiddleware ==
  [][\A p \in Procs :
       /\ (pc[p] = "idle" /\ pc'[p] # "idle")
            => \A h \in Headers, b \in RequestBodies :
                 (/\ AUTH_HEADER_VALUE = UndefinedText \/ h # AUTH_HEADER_VALUE
                  /\ PostVerify(p, h, b))
                   => /\ res'[p] = [status |-> 401, body |-> [text |-> "Unauthorized"]]
                      /\ pc'[p] = "done"
                      /\ cancelLog' = cancelLog /\ createLog' = createLog
                      /\ cancelOutcome' = cancelOutcome /\ settled' = settled
                      /\ nextAttempt' = nextAttempt
                      /\ activeVerifications' = activeVerifications
       /\ (pc'[p] = "done" /\ res'[p].status = 401)
            => /\ cancelLog'[p] = <<>> /\ createLog'[p] = <<>>
               /\ settled'[p].state = "none"]_vars

C16_Witness ==
  \E p, q \in Procs :
    /\ AUTH_HEADER_VALUE = "secret"
    /\ pc[p] = "done" /\ res[p].status = 401
    /\ cancelLog[p] = <<>> /\ createLog[p] = <<>>
    /\ Resolved(q) /\ MapHas(activeVerifications, number[q])

\* C17: against a provider that keeps the conflict rule, whenever no
\* invocation for a number is in progress, an attempt the provider holds in
\* flight for that number is the one the registry maps the number to.
C17_RegistryTracksLiveAttempt ==
  \A d \in DOMAIN inFlight :
    Quiescent(d)
      => /\ MapHas(activeVerifications, d)
         /\ activeVerifications[d] = inFlight[d]

\* C18: in the step where an invocation's cancel call settles and the
\* entry for its destination is removed, the entry removed holds the
\* identifier the invocation read and cancelled.
C18_RemovesOnlyWhatItRead ==
  [][\A p \in Procs :
       (/\ CancelSettlesStep(p)
        /\ MapHas(activeVerifications, number[p])
        /\ ~MapHas(activeVerifications', number[p]))
         => activeVerifications[number[p]] = priorId[p]]_vars

\* C19: the step in which an invocation issues its create call is the step
\* of its lookup, when the lookup found no entry, or the step in which its
\* cancel call settles and the entry is cleared; and right after that step
\* the registry holds no entry for the invocation's destination, whatever
\* the other invocations are doing.
C19_NoEntryWhenCreateIssued ==
  [][\A p \in Procs :
       Len(createLog'[p]) > Len(createLog[p])
         => /\ \/ StartStep(p) /\ ~MapHas(activeVerifications, number'[p])
               \/ CancelSettlesStep(p) /\ number'[p] = number[p]
            /\ pc'[p] = "create"
            /\ createLog'[p][Len(createLog'[p])].workflow[1].to = number'[p]
            /\ ~MapHas(activeVerifications', number'[p])]_vars

C19_Witness ==
  \E p, q \in Procs :
    /\ p # q /\ number[p] = number[q]
    /\ pc[p] = "create" /\ TruthyId(priorId[p]) /\ Len(createLog[p]) = 1
    /\ pc[q] = "cancel" /\ priorId[q] = priorId[p]
    /\ ~MapHas(activeVerifications, number[p])

\* the destination of the invocation that takes the step
DestinationOfStep(p) == IF pc[p] = "idle" THEN number'[p] ELSE number[p]

\* C20: a step of an invocation for destination D leaves the registry
\* entry of every other destination as it was, present or absent, and the
\* only identifier an invocation ever cancels is the one the registry held
\* for its own destination when it started.
C20_OnlyOwnDestination ==
  [][/\ \A p \in Procs :
          pc'[p] # pc[p]
            => \A d \in (DOMAIN activeVerifications \cup DOMAIN activeVerifications')
                        \ {DestinationOfStep(p)} :
                 /\ MapHas(activeVerifications, d) /\ MapHas(activeVerifications', d)
                 /\ activeVerifications'[d] = activeVerifications[d]
     /\ \A p \in Procs :
          cancelLog'[p] # cancelLog[p] /\ cancelLog'[p] # <<>>
            => /\ StartStep(p)
               /\ MapHas(activeVerifications, number'[p])
               /\ cancelLog'[p] = <<activeVerifications[number'[p]]>>]_vars

C20_Witness ==
  \E p \in Procs :
    /\ pc[p] = "create" /\ TruthyId(priorId[p])
    /\ cancelLog[p] = <<priorId[p]>>
    /\ ~MapHas(activeVerifications, number[p])
    /\ \E d \in DOMAIN activeVerifications :
         d # number[p] /\ activeVerifications[d] # priorId[p]

====
